---- MODULE Spec2Model ----
(***************************************************************************)
(* Bracket grouping and confidence scoring of MetroVanAI's RAW grouping    *)
(* scripts: src/hdr-worker/group_raw_brackets_exiftool.py (group_rows) and *)
(* src/group_raw_brackets_exiftool.py (main: grouping and scoring).        *)
(*                                                                         *)
(* Units.  Times and shutter speeds are integers in milliseconds,          *)
(* exposure values in hundredths of a stop, f-numbers in tenths, focal     *)
(* lengths in millimetres, scores in hundredths.  The inputs are chosen so *)
(* that every product and logarithm the code computes is exact in these    *)
(* units.                                                                  *)
(***************************************************************************)
EXTENDS Integers, Sequences, FiniteSets, TLC

VARIABLES
    meta,         \* the metadata entries exiftool returned, in file order
    rows,         \* the records built from meta (entries with a timestamp)
    df,           \* the data frame: rows converted and sorted by time
    pc,           \* position of the pass
    k,            \* index of the next df row of the clustering loop
    cur,          \* clustering loop: the open cluster
    time_groups,  \* clustering loop: the closed clusters
    ci,           \* index of the next cluster handed to the splitter
    sp,           \* locals of the running split_exposure_cluster call
    parts,        \* what each split_exposure_cluster call returned, by cluster
    groups,       \* the final groups
    gi,           \* scoring loop: index of the next group
    confidences,  \* scoring loop: the confidence records written so far
    raised        \* scoring loop: where each group's scoring raised, if at all

vars == <<meta, rows, df, pc, k, cur, time_groups, ci, sp, parts, groups, gi,
          confidences, raised>>

(***************************************************************************)
(* Bounds of the model.                                                    *)
(***************************************************************************)
MaxShort == 3     \* short inputs: up to MaxShort entries with arbitrary fields
MaxLong == 8      \* long inputs: one continuous run of 8..MaxLong entries
MaxCluster == 8   \* splitter inputs: clusters of 1..MaxCluster records
MaxShots == 8     \* scoring inputs: groups of 1..MaxShots records
MaxGroups == 2    \* scoring inputs: passes of 1..MaxGroups groups

(***************************************************************************)
(* Optional numbers.  A field of a record is Python None, a float NaN (what*)
(* pandas makes of None in a numeric column) or a number.                  *)
(***************************************************************************)
None == [tag |-> "none", val |-> 0]
NaN == [tag |-> "nan", val |-> 0]
Num(v) == [tag |-> "num", val |-> v]
IsNum(x) == x.tag = "num"

Abs(x) == IF x < 0 THEN -x ELSE x
Max(a, b) == IF a >= b THEN a ELSE b
Min(a, b) == IF a <= b THEN a ELSE b

RECURSIVE SeqSum(_)
SeqSum(s) == IF s = <<>> THEN 0 ELSE Head(s) + SeqSum(Tail(s))

RECURSIVE Flatten(_)
Flatten(ss) == IF ss = <<>> THEN <<>> ELSE Head(ss) \o Flatten(Tail(ss))

Range(s) == {s[i] : i \in DOMAIN s}

(***************************************************************************)
(* Record building: entries without a derivable timestamp are skipped.     *)
(***************************************************************************)
make_row(r) ==
    [path |-> r.path, time |-> r.time.val, ev |-> r.ev, shutter |-> r.shutter,
     fnum |-> r.fnum, focal |-> r.focal]

RECURSIVE BuildRows(_)
BuildRows(m) ==
    IF m = <<>> THEN <<>>
    ELSE IF IsNum(Head(m).time)
         THEN <<make_row(Head(m))>> \o BuildRows(Tail(m))
         ELSE BuildRows(Tail(m))

(***************************************************************************)
(* pd.DataFrame(rows): a column in which some row has a number is a float  *)
(* column and its None become NaN; a column of None only stays an object   *)
(* column of None.                                                         *)
(***************************************************************************)
ToColumn(rs, f, x) ==
    IF x.tag = "none" /\ \E i \in DOMAIN rs : rs[i][f].tag # "none"
    THEN NaN ELSE x

DataFrame(rs) ==
    [i \in DOMAIN rs |->
        [path |-> rs[i].path, time |-> rs[i].time,
         ev |-> ToColumn(rs, "ev", rs[i].ev),
         shutter |-> ToColumn(rs, "shutter", rs[i].shutter),
         fnum |-> ToColumn(rs, "fnum", rs[i].fnum),
         focal |-> ToColumn(rs, "focal", rs[i].focal)]]

(***************************************************************************)
(* sort_values("time"): pandas sorts with quicksort, which leaves the      *)
(* order of rows of equal time open.  SortValuesTime(rs) is the set of     *)
(* all orders of rs that are ascending in time.                            *)
(***************************************************************************)
RECURSIVE SortedOrders(_, _)
SortedOrders(rs, S) ==
    IF S = {} THEN {<<>>}
    ELSE LET firsts == {i \in S : \A j \in S : rs[i].time <= rs[j].time}
         IN UNION {{<<rs[i]>> \o rest : rest \in SortedOrders(rs, S \ {i})} :
                   i \in firsts}

\* mutant: the frame is left in file order
SortValuesTime_AsGiven(rs) == {rs}

SortValuesTime(rs) == SortedOrders(rs, DOMAIN rs)

(***************************************************************************)
(* sorted(cluster, key=time): Python's sort is stable (insertion sort).    *)
(***************************************************************************)
RECURSIVE InsertByTime(_, _)
InsertByTime(s, x) ==
    IF s = <<>> THEN <<x>>
    ELSE IF x.time < Head(s).time THEN <<x>> \o s
         ELSE <<Head(s)>> \o InsertByTime(Tail(s), x)

RECURSIVE sorted_Descending(_)
sorted_Descending(s) ==
    IF s = <<>> THEN <<>>
    ELSE <<s[Len(s)]>> \o sorted_Descending(SubSeq(s, 1, Len(s) - 1))

RECURSIVE sorted(_)
sorted(s) ==
    IF s = <<>> THEN <<>>
    ELSE InsertByTime(sorted(SubSeq(s, 1, Len(s) - 1)), s[Len(s)])

(***************************************************************************)
(* The gap and setup rules.                                                *)
(***************************************************************************)
TIME_GAP_SEC == 3000       \* 3.0 s
BASE_GAP_SEC == 1200       \* 1.2 s
EXP_GAP_FACTOR == 25       \* 2.5, in tenths

safe_num(v, default) == IF IsNum(v) THEN v ELSE default

\* mutant: the exposure term is subtracted from the base gap
AllowedGapWith_Minus(base, factor, a, b) ==
    LET exp_a == safe_num(a.shutter, Num(0)).val
        exp_b == safe_num(b.shutter, Num(0)).val
        max_exp == Max(exp_a, exp_b)
        dynamic == base - (factor * max_exp) \div 10
    IN Max(TIME_GAP_SEC, dynamic)

\* the body of allowed_gap_sec, its two tuning values as parameters
AllowedGapWith(base, factor, a, b) ==
    LET exp_a == safe_num(a.shutter, Num(0)).val
        exp_b == safe_num(b.shutter, Num(0)).val
        max_exp == Max(exp_a, exp_b)
        dynamic == base + (factor * max_exp) \div 10
    IN Max(TIME_GAP_SEC, dynamic)

allowed_gap_sec(a, b) == AllowedGapWith(BASE_GAP_SEC, EXP_GAP_FACTOR, a, b)

\* Python truth of a field: None and 0.0 are false, NaN and other numbers true
Truthy(x) == x.tag = "nan" \/ (x.tag = "num" /\ x.val # 0)

\* abs(x - y) > tol; a comparison with NaN is false
AbsDiffGt(x, y, tol) == IsNum(x) /\ IsNum(y) /\ Abs(x.val - y.val) > tol

same_setup(a, b) ==
    IF Truthy(a.fnum) /\ Truthy(b.fnum) /\ AbsDiffGt(a.fnum, b.fnum, 2)
    THEN FALSE
    ELSE IF Truthy(a.focal) /\ Truthy(b.focal) /\ AbsDiffGt(a.focal, b.focal, 2)
         THEN FALSE
         ELSE TRUE

\* mutant: the setup rule is left out of the join condition
Joins_GapOnly(prev, row) == row.time - prev.time <= allowed_gap_sec(prev, row)

\* mutant: a record at exactly the allowed gap does not join
Joins_StrictGap(prev, row) ==
    row.time - prev.time < allowed_gap_sec(prev, row) /\ same_setup(prev, row)

\* mutant: the gap rule is left out of the join condition
Joins_SetupOnly(prev, row) == same_setup(prev, row)

\* mutant: the clustering joins on a fixed quarter-hour window
Joins_Window(prev, row) ==
    row.time - prev.time <= 900000 /\ same_setup(prev, row)

\* the join condition of the clustering loop
Joins(prev, row) ==
    row.time - prev.time <= allowed_gap_sec(prev, row) /\ same_setup(prev, row)

\* the clustering loop as a function of the sorted frame, run with the given
\* base gap and exposure gap factor: the clusters in order, the open one last
RECURSIVE ClusterLoop(_, _, _, _, _, _)
ClusterLoop(base, factor, rs, i, closed, open) ==
    IF i > Len(rs) THEN (IF open # <<>> THEN Append(closed, open) ELSE closed)
    ELSE IF open = <<>> THEN ClusterLoop(base, factor, rs, i + 1, closed, <<rs[i]>>)
    ELSE IF rs[i].time - open[Len(open)].time
                <= AllowedGapWith(base, factor, open[Len(open)], rs[i])
            /\ same_setup(open[Len(open)], rs[i])
         THEN ClusterLoop(base, factor, rs, i + 1, closed, Append(open, rs[i]))
         ELSE ClusterLoop(base, factor, rs, i + 1, Append(closed, open), <<rs[i]>>)

ClustersWith(base, factor, rs) == ClusterLoop(base, factor, rs, 1, <<>>, <<>>)

\* tuning values the clustering is compared under: (base gap, factor)
GapParams ==
    {[base |-> b, factor |-> f] : b \in {BASE_GAP_SEC, 5000, 8000},
                                  f \in {10, EXP_GAP_FACTOR, 40}}

(***************************************************************************)
(* Inputs.                                                                 *)
(***************************************************************************)
ShortTimes == {None, Num(0), Num(3000), Num(7000)}
ShortSetups ==
    {[ev |-> None, shutter |-> None, fnum |-> Num(80), focal |-> Num(35)],
     [ev |-> None, shutter |-> None, fnum |-> Num(56), focal |-> Num(35)],
     [ev |-> Num(0), shutter |-> Num(2000), fnum |-> Num(80), focal |-> None],
     [ev |-> None, shutter |-> None, fnum |-> None, focal |-> Num(50)]}

Entry(p, t, s) ==
    [path |-> p, time |-> t, ev |-> s.ev, shutter |-> s.shutter,
     fnum |-> s.fnum, focal |-> s.focal]

\* the inputs of n entries with arbitrary times and setups
ShortInputs(n) ==
    {[i \in 1..n |-> Entry(i, ts[i], ss[i])] :
        ts \in [1..n -> ShortTimes], ss \in [1..n -> ShortSetups]}

\* Runs: each entry follows the one before it after 1 s ("far": after 4 s) and
\* reports an ev one stop above ("up") or below ("down") the last reported
\* one, the same ev ("far"), or none ("none")
LongSteps == {"up", "down", "none"}
SplitSteps == {"up", "down", "none", "far"}
\* "dip": half a stop below, "nudge": 0.3 stops above
ScanSteps == {"up", "down", "dip", "nudge"}

StepDelta(st) ==
    CASE st = "up" -> 100
      [] st = "down" -> -100
      [] st = "dip" -> -50
      [] st = "nudge" -> 30
      [] OTHER -> 0

LastEv(r) ==
    LET reported == {i \in DOMAIN r : IsNum(r[i].ev)}
    IN r[CHOOSE i \in reported : \A j \in reported : j <= i].ev.val

NextEntry(r, st) ==
    LET last == r[Len(r)]
    IN [path |-> Len(r) + 1,
        time |-> Num(last.time.val + (IF st = "far" THEN 4000 ELSE 1000)),
        ev |-> IF st = "none" THEN None
               ELSE Num(LastEv(r) + StepDelta(st)),
        shutter |-> None, fnum |-> Num(80), focal |-> Num(35)]

FirstEntry ==
    [path |-> 1, time |-> Num(0), ev |-> Num(0), shutter |-> None,
     fnum |-> Num(80), focal |-> Num(35)]

\* the runs of n entries over the given steps
RECURSIVE Runs(_, _)
Runs(n, steps) ==
    IF n = 1 THEN {<<FirstEntry>>}
    ELSE {Append(r, NextEntry(r, st)) : r \in Runs(n - 1, steps), st \in steps}

\* the clusters of n records handed to the splitter directly: rows of a frame,
\* ascending in time
SplitInputs(n) == {DataFrame(BuildRows(r)) : r \in Runs(n, SplitSteps)}

\* Pairs: two records, the second shot after the first by one of PairGaps,
\* each with any of PairSetups
PairGaps == {1000, 3000, 3001, 6200, 6201}
PairSetups ==
    {[ev |-> None, shutter |-> sh, fnum |-> fn, focal |-> fo] :
        sh \in {None, Num(400), Num(2000)},
        fn \in {None, Num(0), Num(80), Num(82), Num(83)},
        fo \in {None, Num(0), Num(35), Num(37), Num(38)}}

PairInputs ==
    {<<Entry(1, Num(0), a), Entry(2, Num(gap), b)>> :
        a \in PairSetups, b \in PairSetups, gap \in PairGaps}

\* "slow": a 2 s exposure shot 4 s after the record before it, at its ev
PacedSteps == {"up", "down", "slow"}

PacedEntry(r, st) ==
    IF st = "slow" THEN [NextEntry(r, "far") EXCEPT !.shutter = Num(2000)]
    ELSE NextEntry(r, st)

RECURSIVE PacedRuns(_)
PacedRuns(n) ==
    IF n = 1 THEN {<<FirstEntry>>}
    ELSE {Append(r, PacedEntry(r, st)) : r \in PacedRuns(n - 1), st \in PacedSteps}

\* a record shot ten minutes after the last of r
Stray(r) ==
    [NextEntry(r, "up") EXCEPT !.time = Num(r[Len(r)].time.val + 600000)]

\* a paced run of n entries followed by a stray record
PacedInputs(n) == {Append(r, Stray(r)) : r \in PacedRuns(n)}

\* clusters of n records 1 s apart that report a shutter time of 1 s or 4 s
\* and no ev, except that the first may report an ev of 0
ShutterInputs(n) ==
    {DataFrame([i \in 1..n |->
        [path |-> i, time |-> (i - 1) * 1000,
         ev |-> IF i = 1 THEN e1 ELSE None,
         shutter |-> Num(sh[i]), fnum |-> Num(80), focal |-> Num(35)]]) :
        sh \in [1..n -> {1000, 4000}], e1 \in {None, Num(0)}}

\* clusters of n records as the clustering loop hands them over: 1 s apart,
\* one setup, every ev reported
ScanInputs(n) == {DataFrame(BuildRows(r)) : r \in Runs(n, ScanSteps)}

NoScan ==
    [ordered |-> <<>>, si |-> 0, groups |-> <<>>, current |-> <<>>,
     direction |-> 0, start_exp |-> None, min_exp |-> None, max_exp |-> None,
     branch |-> "idle"]

Init ==
    /\ \/ \E n \in 0..MaxShort : meta \in ShortInputs(n)
       \/ \E n \in 8..MaxLong : meta \in Runs(n, LongSteps)
       \/ meta \in PairInputs
       \/ \E n \in 8..MaxLong : meta \in PacedInputs(n)
    /\ rows = <<>>
    /\ df = <<>>
    /\ pc = "build"
    /\ k = 0
    /\ cur = <<>>
    /\ time_groups = <<>>
    /\ ci = 0
    /\ sp = NoScan
    /\ parts = <<>>
    /\ groups = <<>>
    /\ gi = 0
    /\ confidences = <<>>
    /\ raised = <<>>

(***************************************************************************)
(* The grouping pass.                                                      *)
(***************************************************************************)
\* rows = [make_row(r) for r in meta if make_row(r)]
Build ==
    /\ pc = "build"
    /\ rows' = BuildRows(meta)
    /\ pc' = "frame"
    /\ UNCHANGED <<meta, df, k, cur, time_groups, ci, sp, parts, groups, gi,
                   confidences, raised>>

\* df = pd.DataFrame(rows).sort_values("time").reset_index(drop=True)
\* A frame built from no rows has no column "time": sort_values raises
\* KeyError before the df.empty test is reached.
SortFrame ==
    /\ pc = "frame"
    /\ IF rows = <<>>
       THEN /\ pc' = "error"
            /\ UNCHANGED df
       ELSE /\ df' \in SortValuesTime(DataFrame(rows))
            /\ pc' = "cluster"
    /\ k' = 1
    /\ UNCHANGED <<meta, rows, cur, time_groups, ci, sp, parts, groups, gi,
                   confidences, raised>>

\* one iteration of: for _, row in df.iterrows()
ClusterStep ==
    /\ pc = "cluster"
    /\ k <= Len(df)
    /\ LET row == df[k]
       IN IF cur = <<>>
          THEN /\ cur' = <<row>>
               /\ UNCHANGED time_groups
          ELSE IF Joins(cur[Len(cur)], row)
               THEN /\ cur' = Append(cur, row)
                    /\ UNCHANGED time_groups
               ELSE /\ time_groups' = Append(time_groups, cur)
                    /\ cur' = <<row>>
    /\ k' = k + 1
    /\ UNCHANGED <<meta, rows, df, pc, ci, sp, parts, groups, gi, confidences,
                   raised>>

\* after the loop: if cur: time_groups.append(cur)
ClusterEnd ==
    /\ pc = "cluster"
    /\ k > Len(df)
    /\ time_groups' = IF cur # <<>> THEN Append(time_groups, cur) ELSE time_groups
    /\ pc' = "split"
    /\ ci' = 1
    /\ UNCHANGED <<meta, rows, df, k, cur, sp, parts, groups, gi, confidences,
                   raised>>

(***************************************************************************)
(* The exposure-stack splitter.                                            *)
(***************************************************************************)
\* math.log2 of a shutter time, for the times 1000 * 2^n ms
RECURSIVE Log2(_)
Log2(ms) ==
    IF ms = 1000 THEN 0
    ELSE IF ms > 1000 THEN 100 + Log2(ms \div 2) ELSE Log2(ms * 2) - 100

\* mutant: an undefined exposure value counts as 0
exposure_value_Zero(item) ==
    IF item.ev.tag # "none"
    THEN safe_num(item.ev, Num(0))
    ELSE LET shutter == safe_num(item.shutter, None)
         IN IF IsNum(shutter) /\ shutter.val > 0
            THEN Num(Log2(shutter.val)) ELSE Num(0)

exposure_value(item) ==
    IF item.ev.tag # "none"
    THEN safe_num(item.ev, None)
    ELSE LET shutter == safe_num(item.shutter, None)
         IN IF IsNum(shutter) /\ shutter.val > 0
            THEN Num(Log2(shutter.val)) ELSE None

\* mutant: the running range is not reset when a sub-group is closed
push_current_KeepRange(s) ==
    [s EXCEPT !.groups = IF s.current # <<>> THEN Append(s.groups, s.current)
                         ELSE s.groups,
              !.current = <<>>, !.direction = 0, !.start_exp = None]

\* mutant: the direction is not reset when a sub-group is closed
push_current_KeepDirection(s) ==
    [s EXCEPT !.groups = IF s.current # <<>> THEN Append(s.groups, s.current)
                         ELSE s.groups,
              !.current = <<>>, !.start_exp = None,
              !.min_exp = None, !.max_exp = None]

\* mutant: the closed sub-group is not appended to groups
push_current_Forget(s) ==
    [s EXCEPT !.current = <<>>, !.direction = 0, !.start_exp = None,
              !.min_exp = None, !.max_exp = None]

push_current(s) ==
    [s EXCEPT !.groups = IF s.current # <<>> THEN Append(s.groups, s.current)
                         ELSE s.groups,
              !.current = <<>>, !.direction = 0, !.start_exp = None,
              !.min_exp = None, !.max_exp = None]

update_range(s, exp) ==
    IF ~IsNum(exp) THEN s
    ELSE [s EXCEPT !.min_exp = IF ~IsNum(s.min_exp) \/ exp.val < s.min_exp.val
                                THEN exp ELSE s.min_exp,
                   !.max_exp = IF ~IsNum(s.max_exp) \/ exp.val > s.max_exp.val
                                THEN exp ELSE s.max_exp]

\* current = [item]; start_exp = exp; update_range(exp)
StartGroup(s, item, exp, why) ==
    update_range([s EXCEPT !.current = <<item>>, !.start_exp = exp,
                           !.branch = why], exp)

\* mutant: the cap is tested one record late
AtCap_Late(current) == Len(current) > 7

\* the hard cap of a sub-group
AtCap(current) == Len(current) >= 7

\* mutant: only single records are returned unchanged
PassThrough_Single(cluster) == Len(cluster) <= 1

\* mutant: clusters of up to 8 records are returned unchanged
PassThrough_Eight(cluster) == Len(cluster) <= 1 \/ Len(cluster) <= 8

\* the clusters the splitter returns unchanged
PassThrough(cluster) == Len(cluster) <= 1 \/ Len(cluster) <= 7

\* mutant: every delta of 0.4 stops or more sets the direction anew
SetDirection_Latest(direction, delta) ==
    IF Abs(delta) >= 40 THEN (IF delta > 0 THEN 1 ELSE -1) ELSE direction

\* direction after line "if direction == 0 and abs(delta) >= 0.4"
SetDirection(direction, delta) ==
    IF direction = 0 /\ Abs(delta) >= 40
    THEN (IF delta > 0 THEN 1 ELSE -1) ELSE direction

\* mutant: the flip threshold is the direction threshold, 0.4
SignFlip_Loose(direction, delta) ==
    direction # 0 /\ ((direction > 0 /\ delta < -40) \/ (direction < 0 /\ delta > 40))

\* mutant: the flip is tested on the side of the direction
SignFlip_SameSide(direction, delta) ==
    direction # 0 /\ ((direction > 0 /\ delta > 60) \/ (direction < 0 /\ delta < -60))

\* sign_flip
SignFlip(direction, delta) ==
    direction # 0 /\ ((direction > 0 /\ delta < -60) \/ (direction < 0 /\ delta > 60))

\* the body of "for item in ordered"
ScanStep(s, item) ==
    IF s.current = <<>>
    THEN StartGroup(s, item, exposure_value(item), "first")
    ELSE
      LET prev == s.current[Len(s.current)]
          dt == item.time - prev.time
      IN
      IF dt > allowed_gap_sec(prev, item) \/ ~same_setup(prev, item)
      THEN StartGroup(push_current(s), item, exposure_value(item), "gap")
      ELSE IF AtCap(s.current)
      THEN StartGroup(push_current(s), item, exposure_value(item), "cap")
      ELSE
        LET exp == exposure_value(item)
            prev_exp == exposure_value(prev)
            appended == update_range([s EXCEPT !.current = Append(s.current, item),
                                               !.branch = "append"], exp)
        IN
        IF IsNum(exp) /\ IsNum(prev_exp)
        THEN
          LET delta == exp.val - prev_exp.val
              direction == SetDirection(s.direction, delta)
              exp_range == IF IsNum(s.min_exp) /\ IsNum(s.max_exp)
                           THEN s.max_exp.val - s.min_exp.val ELSE 0
              sign_flip == SignFlip(direction, delta)
              back_to_start == IsNum(s.start_exp)
                               /\ Abs(exp.val - s.start_exp.val) <= 40
          IN
          IF Len(s.current) >= 2 /\ sign_flip /\ (back_to_start \/ exp_range >= 60)
          THEN StartGroup(push_current(s), item, exp, "reversal")
          ELSE [appended EXCEPT !.direction = direction]
        ELSE appended

\* mutant: the last sub-group is not appended after the loop
ScanResult_DropLast(s) == s.groups

\* after the loop: if current: groups.append(current); return groups
ScanResult(s) == IF s.current # <<>> THEN Append(s.groups, s.current) ELSE s.groups

\* one call split_exposure_cluster(cluster): a short cluster is returned at
\* once, a longer one is sorted and scanned
SplitCall ==
    /\ pc = "split"
    /\ ci <= Len(time_groups)
    /\ LET cluster == time_groups[ci]
       IN IF PassThrough(cluster)
          THEN /\ parts' = Append(parts, <<cluster>>)
               /\ groups' = groups \o <<cluster>>
               /\ ci' = ci + 1
               /\ UNCHANGED <<pc, sp>>
          ELSE /\ sp' = [NoScan EXCEPT !.ordered = sorted(cluster), !.si = 1,
                                       !.branch = "start"]
               /\ pc' = "scan"
               /\ UNCHANGED <<parts, groups, ci>>
    /\ UNCHANGED <<meta, rows, df, k, cur, time_groups, gi, confidences, raised>>

ScanItem ==
    /\ pc = "scan"
    /\ sp.si <= Len(sp.ordered)
    /\ sp' = [ScanStep(sp, sp.ordered[sp.si]) EXCEPT !.si = sp.si + 1]
    /\ UNCHANGED <<meta, rows, df, pc, k, cur, time_groups, ci, parts, groups, gi,
                   confidences, raised>>

\* the call returns and groups.extend(...) takes its result
SplitReturn ==
    /\ pc = "scan"
    /\ sp.si > Len(sp.ordered)
    /\ parts' = Append(parts, ScanResult(sp))
    /\ groups' = groups \o ScanResult(sp)
    /\ sp' = NoScan
    /\ ci' = ci + 1
    /\ pc' = "split"
    /\ UNCHANGED <<meta, rows, df, k, cur, time_groups, gi, confidences, raised>>

\* return groups
Return ==
    /\ pc = "split"
    /\ ci > Len(time_groups)
    /\ pc' = "done"
    /\ UNCHANGED <<meta, rows, df, k, cur, time_groups, ci, sp, parts, groups, gi,
                   confidences, raised>>

Next == Build \/ SortFrame \/ ClusterStep \/ ClusterEnd \/ SplitCall \/ ScanItem
        \/ SplitReturn \/ Return

Spec == Init /\ [][Next]_vars

(***************************************************************************)
(* The splitter alone: split_exposure_cluster called on any cluster.       *)
(***************************************************************************)
InitSplit ==
    /\ meta = <<>>
    /\ rows = <<>>
    /\ df = <<>>
    /\ pc = "split"
    /\ k = 0
    /\ cur = <<>>
    /\ \E n \in 1..MaxCluster :
          time_groups \in {<<c>> : c \in SplitInputs(n) \cup ShutterInputs(n)}
    /\ ci = 1
    /\ sp = NoScan
    /\ parts = <<>>
    /\ groups = <<>>
    /\ gi = 0
    /\ confidences = <<>>
    /\ raised = <<>>

NextSplit == SplitCall \/ ScanItem \/ SplitReturn \/ Return

SpecSplit == InitSplit /\ [][NextSplit]_vars

\* The splitter on clusters that are scanned: longer than 7, within the gap
\* and setup rules
InitScan ==
    /\ meta = <<>>
    /\ rows = <<>>
    /\ df = <<>>
    /\ pc = "split"
    /\ k = 0
    /\ cur = <<>>
    /\ \E n \in 8..MaxCluster : time_groups \in {<<c>> : c \in ScanInputs(n)}
    /\ ci = 1
    /\ sp = NoScan
    /\ parts = <<>>
    /\ groups = <<>>
    /\ gi = 0
    /\ confidences = <<>>
    /\ raised = <<>>

SpecScan == InitScan /\ [][NextSplit]_vars

(***************************************************************************)
(* The confidence scorer (main of src/group_raw_brackets_exiftool.py).     *)
(* Scores are in hundredths.  The code adds binary floats; for every       *)
(* combination of rules the float sum lies within 1e-15 of the decimal sum,*)
(* on the same side of 0.65 and 0.85, and round(score, 3) is the decimal.  *)
(***************************************************************************)
\* mutant: a missing value is counted as 0
RECURSIVE Defined_Fill0(_, _)
Defined_Fill0(g, f) ==
    IF g = <<>> THEN <<>>
    ELSE <<IF IsNum(Head(g)[f]) THEN Head(g)[f].val ELSE 0>>
         \o Defined_Fill0(Tail(g), f)

\* the numbers among the values of field f, as a sequence (dropna)
RECURSIVE Defined(_, _)
Defined(g, f) ==
    IF g = <<>> THEN <<>>
    ELSE (IF IsNum(Head(g)[f]) THEN <<Head(g)[f].val>> ELSE <<>>)
         \o Defined(Tail(g), f)

SeqMax(s) == CHOOSE x \in Range(s) : \A y \in Range(s) : y <= x
SeqMin(s) == CHOOSE x \in Range(s) : \A y \in Range(s) : x <= y

ev_range(gdf) ==
    LET evs == Defined(gdf, "ev")
    IN IF Len(evs) < 2 THEN 0 ELSE SeqMax(evs) - SeqMin(evs)

\* mutant: the deviation is taken about 0 instead of the mean
StdBelowUnit_Uncentered(gdf, f) ==
    LET xs == Defined(gdf, f)
        n == Len(xs)
        squares == SeqSum([i \in DOMAIN xs |-> xs[i] * xs[i]])
    IN n >= 2 /\ squares < n - 1

\* gdf[f].std() < 1 unit of f: the sample deviation of the defined values,
\* NaN (and so not below anything) when fewer than two are defined
StdBelowUnit(gdf, f) ==
    LET xs == Defined(gdf, f)
        n == Len(xs)
        sum == SeqSum(xs)
        squares == SeqSum([i \in DOMAIN xs |-> xs[i] * xs[i]])
    IN n >= 2 /\ n * squares - sum * sum < n * (n - 1)

\* mutant: only the first pair is tested
GapOk_FirstPair(ordered) ==
    \A idx \in 2..Min(2, Len(ordered)) :
        ~(ordered[idx].time - ordered[idx - 1].time
            > allowed_gap_sec(ordered[idx - 1], ordered[idx]))

\* the loop over consecutive pairs of the group in time order
GapOk(ordered) ==
    \A idx \in 2..Len(ordered) :
        ~(ordered[idx].time - ordered[idx - 1].time
            > allowed_gap_sec(ordered[idx - 1], ordered[idx]))

Rule(st, applies, delta, tag) ==
    IF applies
    THEN [st EXCEPT !.score = st.score + delta, !.reasons = Append(st.reasons, tag)]
    ELSE st

\* mutant: a negative score is not raised to 0.0
Clamp_NoFloor(score) == Min(score, 100)

\* if score < 0: score = 0.0; score = min(score, 1.0)
Clamp(score) == Min(IF score < 0 THEN 0 ELSE score, 100)

\* mutant: the handler leaves the score as it was when the error was raised
OnError_KeepScore(st) == [st EXCEPT !.reasons = <<"confidence_error">>]

\* except Exception: score = 0.0; reasons = ["confidence_error"]
OnError(st) == [st EXCEPT !.score = 0, !.reasons = <<"confidence_error">>]

FailPoints == {"none", "ev_range", "shot_count", "gap", "fnum_std", "focal_std"}

\* the try block for one group; fail names the statement that raises, if any
TryScore(gdf, ordered, fail) ==
    LET s0 == [score |-> 0, reasons |-> <<>>, is_hdr_candidate |-> FALSE]
        s1 == IF ev_range(gdf) >= 60
              THEN [Rule(s0, TRUE, 35, "ev_range_ok") EXCEPT !.is_hdr_candidate = TRUE]
              ELSE s0
        shot_count == Len(gdf)
        s2a == Rule(s1, shot_count \in {3, 5}, 25,
                    IF shot_count = 3 THEN "shot_count_3" ELSE "shot_count_5")
        s2 == Rule(s2a, shot_count < 2 \/ shot_count > 7, -20,
                   "shot_count_out_of_range")
        s3 == Rule(s2, Len(ordered) > 1 /\ GapOk(ordered), 20, "time_gap_ok")
        s4 == Rule(s3, StdBelowUnit(gdf, "fnum"), 10, "same_aperture")
        s5 == Rule(s4, StdBelowUnit(gdf, "focal"), 10, "same_focal_length")
    IN CASE fail = "ev_range" -> OnError(s0)
         [] fail = "shot_count" -> OnError(s1)
         [] fail = "gap" -> OnError(s2)
         [] fail = "fnum_std" -> OnError(s3)
         [] fail = "focal_std" -> OnError(s4)
         [] OTHER -> [s5 EXCEPT !.score = Clamp(s5.score)]

\* mutant: the lower limit of needs_review is exclusive
NeedsReview_Strict(score) == 65 < score /\ score < 85

\* mutant: a score of 0.80 is enough for approval
AutoApproved_Low(score) == score >= 80

AutoApproved(score) == score >= 85
NeedsReview(score) == 65 <= score /\ score < 85
AutoHold(score) == score < 65

\* the confidence record written for one group
Confidence(st) ==
    [confidence_score |-> st.score,
     auto_approved |-> AutoApproved(st.score),
     needs_review |-> NeedsReview(st.score),
     auto_hold |-> AutoHold(st.score),
     is_hdr_candidate |-> st.is_hdr_candidate,
     reason |-> st.reasons]

\* one iteration of: for i, g in enumerate(groups, 1).  The order of the rows
\* of gdf does not reach the confidence except through sort_values("time"),
\* which leaves the order of rows of equal time open.
ScoreGroup ==
    /\ pc = "score"
    /\ gi <= Len(groups)
    /\ LET gdf == DataFrame(groups[gi])
       IN \E ordered \in SortValuesTime(gdf), fail \in FailPoints :
            /\ confidences' = Append(confidences, Confidence(TryScore(gdf, ordered, fail)))
            /\ raised' = Append(raised, fail)
    /\ gi' = gi + 1
    /\ UNCHANGED <<meta, rows, df, pc, k, cur, time_groups, ci, sp, parts, groups>>

\* after the loop: print("Done. ...")
ScoreEnd ==
    /\ pc = "score"
    /\ gi > Len(groups)
    /\ pc' = "scored"
    /\ UNCHANGED <<meta, rows, df, k, cur, time_groups, ci, sp, parts, groups, gi,
                   confidences, raised>>

(***************************************************************************)
(* The scorer alone: the scoring loop run over any list of groups.         *)
(***************************************************************************)
EvKinds == {"wide", "edge", "narrow", "none"}
GapKinds == {"near", "far"}
SetupKinds == {"same", "mixed", "partial", "partial_mixed", "partial_close", "none"}

\* a group of n records at 1 s spacing ("far": the last one 5 s late)
MkGroup(n, evk, gapk, setk) ==
    [i \in 1..n |->
        [path |-> i,
         time |-> (i - 1) * 1000 + (IF gapk = "far" /\ i = n /\ n > 1 THEN 4000 ELSE 0),
         ev |-> CASE evk = "wide" -> Num((i - 1) * 100)
                  [] evk = "edge" -> Num(60 * (i % 2))
                  [] evk = "narrow" -> Num(30 * (i % 2))
                  [] OTHER -> None,
         shutter |-> None,
         fnum |-> CASE setk = "same" -> Num(80)
                    [] setk = "mixed" -> Num(IF i % 2 = 1 THEN 80 ELSE 56)
                    [] setk = "partial" -> (IF i = 1 THEN None ELSE Num(80))
                    [] setk = "partial_mixed" ->
                         (IF i = 1 THEN None ELSE Num(IF i % 2 = 1 THEN 80 ELSE 56))
                    [] setk = "partial_close" ->
                         (IF i = 1 THEN None ELSE Num(IF i % 2 = 1 THEN 80 ELSE 81))
                    [] OTHER -> None,
         focal |-> CASE setk = "same" -> Num(35)
                     [] setk = "mixed" -> Num(IF i % 2 = 1 THEN 35 ELSE 50)
                     [] setk \in {"partial", "partial_mixed", "partial_close"} ->
                          (IF i = 1 THEN None ELSE Num(35))
                     [] OTHER -> None]]

ScoreGroups ==
    {MkGroup(n, e, g, s) : n \in 1..MaxShots, e \in EvKinds, g \in GapKinds,
                           s \in SetupKinds}

TailGroups ==
    {MkGroup(3, "wide", "near", "same"), MkGroup(1, "none", "near", "none"),
     MkGroup(3, "wide", "near", "partial_mixed")}

\* the passes of n groups: one of them any group, the others tail groups
ScoreInputs(n) ==
    {[i \in 1..n |-> IF i = pos THEN g ELSE tail[i]] :
        pos \in 1..n, g \in ScoreGroups, tail \in [1..n -> TailGroups]}

InitScore ==
    /\ meta = <<>>
    /\ rows = <<>>
    /\ df = <<>>
    /\ pc = "score"
    /\ k = 0
    /\ cur = <<>>
    /\ time_groups = <<>>
    /\ ci = 0
    /\ sp = NoScan
    /\ parts = <<>>
    /\ \E n \in 1..MaxGroups : groups \in ScoreInputs(n)
    /\ gi = 1
    /\ confidences = <<>>
    /\ raised = <<>>

NextScore == ScoreGroup \/ ScoreEnd

SpecScore == InitScore /\ [][NextScore]_vars

(***************************************************************************)
(* The whole of main: the grouping pass, then the scoring loop, run on     *)
(* exposure brackets shot at 1 s spacing and on pairs shot 600 s apart.    *)
(***************************************************************************)
BracketA == <<-200, -100, 0, 100, 200>>
BracketC == <<-200, -100, 0, 100, 200, 100, 0, -100, -200>>
BracketL == <<-300, -200, -100, 0, 100, 200, 300, 400>>

BracketSetups ==
    {[shutter |-> sh, fnum |-> fn, focal |-> fo] :
        sh \in {None, Num(250), Num(2000)},
        fn \in {None, Num(0), Num(56), Num(80)},
        fo \in {None, Num(35), Num(50)}}

\* one record per ev of the bracket, 1 s apart, all with the same setup; the
\* files are listed in shooting order or in the reverse of it
BracketInputs(evs) ==
    {[i \in DOMAIN evs |->
        LET j == IF rev THEN Len(evs) + 1 - i ELSE i
        IN [path |-> i, time |-> Num((j - 1) * 1000), ev |-> Num(evs[j]),
            shutter |-> s.shutter, fnum |-> s.fnum, focal |-> s.focal]] :
        s \in BracketSetups, rev \in BOOLEAN}

\* two records with the same settings, shot 600 s apart
ApartInputs ==
    {[i \in 1..2 |->
        [path |-> i, time |-> Num(IF (i = 2) = rev THEN 0 ELSE 600000), ev |-> e,
         shutter |-> sh, fnum |-> s.fnum, focal |-> s.focal]] :
        s \in BracketSetups, rev \in BOOLEAN, e \in {None, Num(0)},
        sh \in {None, Num(250), Num(2000), Num(239000), Num(240000)}}

\* three records, the first two with the same timestamp and the third 4 s
\* later, each with a shutter time of 2 s or none reported
TieInputs ==
    {[i \in 1..3 |->
        [path |-> i, time |-> Num(IF i = 3 THEN 4000 ELSE 0), ev |-> None,
         shutter |-> sh[i], fnum |-> Num(80), focal |-> Num(35)]] :
        sh \in [1..3 -> {None, Num(2000)}]}

InitMain ==
    /\ meta \in BracketInputs(BracketA) \cup BracketInputs(BracketC)
                 \cup BracketInputs(BracketL) \cup ApartInputs \cup TieInputs
    /\ rows = <<>>
    /\ df = <<>>
    /\ pc = "build"
    /\ k = 0
    /\ cur = <<>>
    /\ time_groups = <<>>
    /\ ci = 0
    /\ sp = NoScan
    /\ parts = <<>>
    /\ groups = <<>>
    /\ gi = 0
    /\ confidences = <<>>
    /\ raised = <<>>

\* the groups are complete: the output loop starts
BeginOutput ==
    /\ pc = "split"
    /\ ci > Len(time_groups)
    /\ pc' = "score"
    /\ gi' = 1
    /\ UNCHANGED <<meta, rows, df, k, cur, time_groups, ci, sp, parts, groups,
                   confidences, raised>>

NextMain == Build \/ SortFrame \/ ClusterStep \/ ClusterEnd \/ SplitCall
            \/ ScanItem \/ SplitReturn \/ BeginOutput \/ ScoreGroup \/ ScoreEnd

SpecMain == InitMain /\ [][NextMain]_vars

(***************************************************************************)
(* Record building from the fields exiftool reports.  A field is absent    *)
(* (r.get gives None), a JSON number (kept in the unit of its column) or a *)
(* text.                                                                   *)
(***************************************************************************)
Str(t) == [tag |-> "str", val |-> t]

\* Python truth value of a reported field: None, 0 and "" are false
Falsy(v) == v = None \/ v = Num(0) \/ v = Str("")

\* a or b
Or(a, b) == IF Falsy(a) THEN b ELSE a

\* the texts of the model as parse_num reads them: a fraction "a/b", or the
\* first number the pattern finds after dropping "+"; <<>> where it finds none
ParseText(t) ==
    CASE t = "+1" -> <<1, 1>>
      [] t = "1/4" -> <<1, 4>>
      [] t = "8.0 mm" -> <<8, 1>>
      [] OTHER -> <<>>

\* parse_num(v), scaled to the unit of the column
parse_num(v, unit) ==
    IF v = None THEN None
    ELSE IF v.tag = "num" THEN v
    ELSE IF ParseText(v.val) = <<>> THEN None
    ELSE Num((ParseText(v.val)[1] * unit) \div ParseText(v.val)[2])

EvUnit == 100
ShutterUnit == 1000
FnumUnit == 10
FocalUnit == 1

\* the fields of the record make_row builds from an exiftool entry
Fields(r) ==
    [path |-> r.path, time |-> r.time,
     ev |-> parse_num(Or(r.ExposureBiasValue, r.ExposureCompensation), EvUnit),
     shutter |-> parse_num(Or(r.ExposureTime, r.ShutterSpeed), ShutterUnit),
     fnum |-> parse_num(Or(r.FNumber, r.Aperture), FnumUnit),
     focal |-> parse_num(r.FocalLength, FocalUnit)]

\* one exiftool entry, with or without a timestamp
RawInputs ==
    {<<[path |-> 1, time |-> t, ExposureBiasValue |-> eb,
        ExposureCompensation |-> ec, ExposureTime |-> et, ShutterSpeed |-> ss,
        FNumber |-> fn, Aperture |-> ap, FocalLength |-> Str("8.0 mm")]>> :
        t \in {None, Num(0)},
        eb \in {None, Num(0), Num(100), Str("+1"), Str("n/a")},
        ec \in {None, Num(0), Num(200), Str("1/4")},
        et \in {None, Num(0), Num(250), Str("1/4")},
        ss \in {None, Num(2000)},
        fn \in {None, Num(0), Num(80)},
        ap \in {None, Num(56)}}

InitBuild ==
    /\ meta \in RawInputs
    /\ rows = <<>>
    /\ df = <<>>
    /\ pc = "build"
    /\ k = 0
    /\ cur = <<>>
    /\ time_groups = <<>>
    /\ ci = 0
    /\ sp = NoScan
    /\ parts = <<>>
    /\ groups = <<>>
    /\ gi = 0
    /\ confidences = <<>>
    /\ raised = <<>>

\* rows = [make_row(r) for r in meta if make_row(r)], from reported fields
BuildRaw ==
    /\ pc = "build"
    /\ rows' = BuildRows([i \in DOMAIN meta |-> Fields(meta[i])])
    /\ pc' = "frame"
    /\ UNCHANGED <<meta, df, k, cur, time_groups, ci, sp, parts, groups, gi,
                   confidences, raised>>

NextBuild == BuildRaw \/ SortFrame

SpecBuild == InitBuild /\ [][NextBuild]_vars

(***************************************************************************)
(* Properties.                                                             *)
(***************************************************************************)
NonDecreasing(rs) == \A i, j \in DOMAIN rs : i < j => rs[i].time <= rs[j].time
Paths(rs) == {rs[i].path : i \in DOMAIN rs}
TimedPaths == {meta[i].path : i \in {j \in DOMAIN meta : IsNum(meta[j].time)}}
\* the time between two records exceeds the allowed gap
GapExceeded(a, b) == b.time - a.time > allowed_gap_sec(a, b)
\* the clusters of the clustering loop, the open one included
Clusters ==
    IF pc = "cluster" /\ cur # <<>> THEN Append(time_groups, cur) ELSE time_groups
\* the rows the clustering loop has placed
Placed == IF pc = "cluster" THEN SubSeq(df, 1, k - 1) ELSE df
Clustered == pc \in {"cluster", "split", "scan", "done"}

\* C1: when the pass has run, the final groups hold exactly the records that
\* had a timestamp, each once, and nothing else.
C1_Partition ==
    pc = "done" =>
        LET out == Flatten(groups)
        IN /\ Len(out) = Len(rows)
           /\ \A i, j \in DOMAIN out : i # j => out[i].path # out[j].path
           /\ Paths(out) = TimedPaths
           /\ Range(out) = Range(DataFrame(rows))

C1_Witness ==
    /\ pc = "done"
    /\ Len(rows) < Len(meta)
    /\ Len(time_groups) >= 2
    /\ Len(groups) >= 2

\* C2: the sub-groups a split_exposure_cluster call returns, concatenated in
\* order, are the records of its time-ascending cluster in their order, and
\* none of them is empty.
C2_Concatenation ==
    \A c \in DOMAIN parts :
        /\ Flatten(parts[c]) = time_groups[c]
        /\ \A g \in DOMAIN parts[c] : parts[c][g] # <<>>

C2_Witness ==
    /\ pc = "done"
    /\ Len(time_groups[1]) > 7
    /\ Len(parts[1]) >= 3
    /\ NonDecreasing(time_groups[1])

C4_Boundaries ==
    Clustered =>
        /\ Flatten(Clusters) = Placed
        /\ \A c \in DOMAIN Clusters :
             /\ Clusters[c] # <<>>
             /\ \A i \in 1..(Len(Clusters[c]) - 1) :
                  /\ ~GapExceeded(Clusters[c][i], Clusters[c][i + 1])
                  /\ same_setup(Clusters[c][i], Clusters[c][i + 1])
             /\ c > 1 =>
                  LET a == Clusters[c - 1][Len(Clusters[c - 1])]
                      b == Clusters[c][1]
                  IN GapExceeded(a, b) \/ ~same_setup(a, b)

C4_Witness ==
    /\ pc = "done"
    /\ \E c \in DOMAIN time_groups : Len(time_groups[c]) >= 2
    /\ \E c \in 2..Len(time_groups) :
         LET a == time_groups[c - 1][Len(time_groups[c - 1])]
             b == time_groups[c][1]
         IN ~GapExceeded(a, b) /\ ~same_setup(a, b)

\* C5: no sub-group the splitter builds or returns holds more than 7 records.
C5_Cap ==
    /\ Len(sp.current) <= 7
    /\ \A g \in DOMAIN sp.groups : Len(sp.groups[g]) <= 7
    /\ \A c \in DOMAIN parts : \A g \in DOMAIN parts[c] : Len(parts[c][g]) <= 7

C5_Witness ==
    /\ pc = "scan"
    /\ sp.branch = "cap"
    /\ Len(sp.groups[Len(sp.groups)]) = 7

\* C6: a cluster of 7 or fewer records is returned as one group, itself.
C6_PassThrough ==
    \A c \in DOMAIN parts :
        Len(time_groups[c]) <= 7 => parts[c] = <<time_groups[c]>>

\* a cluster of at most 7 records that rises by a stop twice and then falls by
\* one: a reversal that splits a longer cluster
C6_Witness ==
    /\ pc = "done"
    /\ Len(time_groups[1]) <= 7
    /\ \E i \in 1..(Len(time_groups[1]) - 3) :
         LET c == time_groups[1]
         IN /\ \A j \in i..(i + 3) : IsNum(c[j].ev)
            /\ c[i + 1].ev.val - c[i].ev.val = 100
            /\ c[i + 2].ev.val - c[i + 1].ev.val = 100
            /\ c[i + 3].ev.val - c[i + 2].ev.val = -100
    /\ parts = <<time_groups>>

\* C7: every score written is between 0.0 and 1.0.
C7_ScoreBounds ==
    \A i \in DOMAIN confidences :
        0 <= confidences[i].confidence_score /\ confidences[i].confidence_score <= 100

\* a pass in which one group's scoring raised and a single shot, whose rules
\* sum to -0.20, was scored 0.0
C7_Witness ==
    /\ \E i \in DOMAIN raised : raised[i] # "none"
    /\ \E i \in DOMAIN raised :
         /\ raised[i] = "none"
         /\ Len(groups[i]) = 1
         /\ confidences[i].confidence_score = 0

\* C8: exactly one of the three flags is set, by the score alone.
C8_Classification ==
    \A i \in DOMAIN confidences :
        LET c == confidences[i]
        IN /\ c.auto_approved <=> c.confidence_score >= 85
           /\ c.needs_review <=> (65 <= c.confidence_score /\ c.confidence_score < 85)
           /\ c.auto_hold <=> c.confidence_score < 65
           /\ Cardinality({f \in {"auto_approved", "needs_review", "auto_hold"} : c[f]}) = 1

\* a pass with a group scored exactly 0.65 (needs_review) and an approved group
C8_Witness ==
    /\ \E i \in DOMAIN confidences :
         confidences[i].confidence_score = 65 /\ confidences[i].needs_review
    /\ \E i \in DOMAIN confidences : confidences[i].auto_approved

\* C9: a group whose scoring raised is written with score 0.0, reasons
\* [confidence_error] and auto_hold; the loop goes on, and every other group
\* has the confidence of an undisturbed scoring.
C9_ScoringFailure ==
    /\ pc # "error"
    /\ Len(confidences) = gi - 1
    /\ pc = "scored" => Len(confidences) = Len(groups)
    /\ \A i \in DOMAIN confidences :
         IF raised[i] # "none"
         THEN /\ confidences[i].confidence_score = 0
              /\ confidences[i].reason = <<"confidence_error">>
              /\ confidences[i].auto_hold
              /\ ~confidences[i].auto_approved
              /\ ~confidences[i].needs_review
         ELSE /\ "confidence_error" \notin Range(confidences[i].reason)
              /\ confidences[i].confidence_score
                   = Clamp(SeqSum([r \in DOMAIN confidences[i].reason |->
                        CASE confidences[i].reason[r] = "ev_range_ok" -> 35
                          [] confidences[i].reason[r] \in {"shot_count_3", "shot_count_5"} -> 25
                          [] confidences[i].reason[r] = "shot_count_out_of_range" -> -20
                          [] confidences[i].reason[r] = "time_gap_ok" -> 20
                          [] OTHER -> 10]))

\* a finished pass in which a group that had earned the ev range bonus raised
\* at the aperture rule and a later group was scored above 0.0
C9_Witness ==
    /\ pc = "scored"
    /\ \E i \in DOMAIN raised :
         /\ raised[i] = "fnum_std"
         /\ ev_range(groups[i]) >= 60
         /\ \E j \in DOMAIN raised :
              j > i /\ raised[j] = "none" /\ confidences[j].confidence_score > 0

\* C10: a pass over no records with a timestamp ends without an error and
\* with no groups.
C10_EmptyInput ==
    (rows = <<>> /\ pc \notin {"build", "frame"}) => (pc = "done" /\ groups = <<>>)
(***************************************************************************)
(* Gap monotonicity.                                                       *)
(***************************************************************************)
JustClustered == pc = "split" /\ ci = 1

Contained(cs, ds) ==
    \A i \in DOMAIN cs : \E j \in DOMAIN ds : Paths(cs[i]) \subseteq Paths(ds[j])

\* C11: for the sorted frame, whenever the base gap and the exposure gap
\* factor are not decreased, every coarse cluster obtained with the smaller
\* values lies within one cluster obtained with the larger ones and the number
\* of clusters does not grow; the clusters the loop built are those of the
\* code's own values.
C11_GapMonotone ==
    JustClustered =>
        /\ time_groups = ClustersWith(BASE_GAP_SEC, EXP_GAP_FACTOR, df)
        /\ \A clusters \in {[p \in GapParams |-> ClustersWith(p.base, p.factor, df)]} :
              \A p, q \in GapParams :
                p.base <= q.base /\ p.factor <= q.factor =>
                    /\ Contained(clusters[p], clusters[q])
                    /\ Len(clusters[q]) <= Len(clusters[p])

\* three records that are three clusters under the code's values and fewer
\* under a larger base gap, and fewer under a larger factor
C11_Witness ==
    /\ JustClustered
    /\ Len(df) = 3
    /\ Len(time_groups) = 3
    /\ Len(ClustersWith(5000, EXP_GAP_FACTOR, df)) < 3
    /\ \E r \in Range(df) : IsNum(r.shutter)
    /\ \E i \in 1..2 : df[i + 1].time - df[i].time > 0 /\ same_setup(df[i], df[i + 1])

(***************************************************************************)
(* Brackets and pairs through the whole of main.                           *)
(***************************************************************************)
Grouped == pc \in {"done", "score", "scored"}

\* the entries are one record per ev of the bracket, in that order in time,
\* 1 s apart
IsBracket(m, evs) ==
    /\ Len(m) = Len(evs)
    /\ \A i \in DOMAIN m : IsNum(m[i].time)
    /\ \E t0 \in {m[i].time.val : i \in DOMAIN m} :
          \A j \in DOMAIN evs :
              \E i \in DOMAIN m : m[i].time.val = t0 + (j - 1) * 1000
                                   /\ m[i].ev = Num(evs[j])

SameField(m, f) == \A i, j \in DOMAIN m : m[i][f] = m[j][f]
Evs(g) == [i \in DOMAIN g |-> g[i].ev]
Times(g) == [i \in DOMAIN g |-> g[i].time]

\* C12: nine records 1 s apart with one setup whose ev rises -2..2 and falls
\* 1..-2 come out as exactly two groups: the five ascending records, then the
\* four descending ones starting with the first descending record.
C12_ScenarioC ==
    (Grouped /\ IsBracket(meta, BracketC) /\ SameField(meta, "fnum")
        /\ SameField(meta, "focal") /\ SameField(meta, "shutter")) =>
        /\ Len(groups) = 2
        /\ Evs(groups[1]) = [i \in 1..5 |-> Num(BracketC[i])]
        /\ Times(groups[1]) = [i \in 1..5 |-> (i - 1) * 1000]
        /\ Evs(groups[2]) = [i \in 1..4 |-> Num(BracketC[i + 5])]
        /\ Times(groups[2]) = [i \in 1..4 |-> (i + 4) * 1000]

C12_Witness ==
    /\ pc = "scored"
    /\ IsBracket(meta, BracketC)
    /\ meta[1].time = Num(8000)
    /\ meta[1].fnum = None
    /\ Len(groups) = 2
    /\ Len(confidences) = 2

\* the entries are two records shot 600 s apart with the same settings
IsApart(m) ==
    /\ Len(m) = 2
    /\ IsNum(m[1].time) /\ IsNum(m[2].time)
    /\ Abs(m[1].time.val - m[2].time.val) = 600000
    /\ \A f \in {"ev", "shutter", "fnum", "focal"} : SameField(m, f)

TwoSingletons == Len(groups) = 2 /\ Len(groups[1]) = 1 /\ Len(groups[2]) = 1

\* 1.2 + 2.5 * shutter < 600 (a missing shutter counts as 0)
ShutterBelowApart(r) ==
    ~IsNum(r.shutter) \/ 1200 + (25 * r.shutter.val) \div 10 < 600000

\* C13 as stated: two records 600 s apart with the same settings, whatever
\* the settings and the shutter time, come out as two singleton groups.
C13_AnyShutter == (Grouped /\ IsApart(meta)) => TwoSingletons

\* C13: two records 600 s apart with the same settings come out as two
\* singleton groups when the shutter time is missing or 1.2 + 2.5 * shutter
\* is under 600 s, and as one group of two otherwise.
C13_ScenarioB ==
    (Grouped /\ IsApart(meta)) =>
        IF ShutterBelowApart(meta[1])
        THEN TwoSingletons
        ELSE Len(groups) = 1 /\ Len(groups[1]) = 2

C13_Witness ==
    /\ pc = "scored"
    /\ IsApart(meta)
    /\ meta[1].shutter = Num(239000)
    /\ meta[1].fnum = Num(80) /\ meta[1].focal = Num(35)
    /\ TwoSingletons

\* C14: five records 1 s apart with one f-number and one focal length and ev
\* -2,-1,0,1,2 come out as exactly one group of 5; scored without an error,
\* its confidence has is_hdr_candidate, a score of at least 0.85 and
\* auto_approved, by the five positive rules and no penalty.
C14_ScenarioA ==
    (Grouped /\ IsBracket(meta, BracketA) /\ SameField(meta, "fnum")
        /\ SameField(meta, "focal") /\ IsNum(meta[1].fnum) /\ IsNum(meta[1].focal)) =>
        /\ Len(groups) = 1
        /\ Len(groups[1]) = 5
        /\ (Len(confidences) = 1 /\ raised[1] = "none") =>
              LET c == confidences[1]
              IN /\ c.is_hdr_candidate
                 /\ c.confidence_score >= 85
                 /\ c.auto_approved /\ ~c.needs_review /\ ~c.auto_hold
                 /\ Range(c.reason) = {"ev_range_ok", "shot_count_5", "time_gap_ok",
                                       "same_aperture", "same_focal_length"}

C14_Witness ==
    /\ pc = "scored"
    /\ IsBracket(meta, BracketA)
    /\ meta[1].time = Num(4000)
    /\ meta[1].fnum = Num(80) /\ meta[1].focal = Num(35)
    /\ raised = <<"none">>
    /\ confidences[1].auto_approved
    /\ confidences[1].confidence_score = 100

(***************************************************************************)
(* The same_aperture rule on groups with missing f-numbers.                *)
(***************************************************************************)
Present(g, f) == {i \in DOMAIN g : IsNum(g[i][f])}

\* the sample deviation of the present values of f is under one unit of f:
\* sum of (n x - sum)^2 < n^2 (n - 1)
DeviationUnderUnit(g, f) ==
    LET P == Present(g, f)
        n == Cardinality(P)
        total == SeqSum([i \in DOMAIN g |-> IF i \in P THEN g[i][f].val ELSE 0])
        dev2 == SeqSum([i \in DOMAIN g |->
                          IF i \in P THEN (n * g[i][f].val - total) * (n * g[i][f].val - total)
                          ELSE 0])
    IN dev2 < n * n * (n - 1)

SomeMissingTwoPresent(g, f) ==
    Cardinality(Present(g, f)) >= 2 /\ Present(g, f) # DOMAIN g

\* C15: for a group scored without an error in which some records have no
\* f-number and at least two have one, same_aperture is among the reasons
\* exactly when the sample deviation of the f-numbers that are present is
\* under 0.1.
C15_ScenarioD ==
    \A i \in DOMAIN confidences :
        (raised[i] = "none" /\ SomeMissingTwoPresent(groups[i], "fnum")) =>
            ("same_aperture" \in Range(confidences[i].reason)
                <=> DeviationUnderUnit(groups[i], "fnum"))

\* a group of three with one f-number missing and the other two equal gets
\* the rule, and one whose present f-numbers are 8.0 and 5.6 does not
C15_Witness ==
    /\ Len(confidences) = 2
    /\ raised = <<"none", "none">>
    /\ Len(groups[1]) = 3
    /\ Cardinality(Present(groups[1], "fnum")) = 2
    /\ "same_aperture" \in Range(confidences[1].reason)
    /\ SomeMissingTwoPresent(groups[2], "fnum")
    /\ "same_aperture" \notin Range(confidences[2].reason)

(***************************************************************************)
(* The allowed gap and the setup rule.                                     *)
(***************************************************************************)
\* the shutter time with a missing one counted as 0
ShutterOr0(r) == IF IsNum(r.shutter) THEN r.shutter.val ELSE 0

\* max(3.0, 1.2 + 2.5 * max(shutter_a, shutter_b)), in ms
ExpectedGap(a, b) ==
    LET longest == IF ShutterOr0(a) >= ShutterOr0(b) THEN ShutterOr0(a) ELSE ShutterOr0(b)
        dynamic == 1200 + (25 * longest) \div 10
    IN IF dynamic > 3000 THEN dynamic ELSE 3000

SameCluster(a, b) ==
    \E i \in DOMAIN Clusters : {a.path, b.path} \subseteq Paths(Clusters[i])

\* C16: the allowed gap of any two records is max(3.0, 1.2 + 2.5 * the longer
\* shutter time) with a missing shutter time as 0, the same in either order
\* and never under 3.0 s; of two consecutive records of the same setup the
\* second joins the cluster of the first exactly when the time between them
\* is at most that gap, so also when it equals it.
\* Stated of the record the clustering loop has just placed, against every
\* record placed before it and against its predecessor.
C16_AllowedGap ==
    (pc = "cluster" /\ k > 1) =>
        LET b == df[k - 1]
        IN /\ \A j \in 1..(k - 1) :
                 /\ allowed_gap_sec(df[j], b) = ExpectedGap(df[j], b)
                 /\ allowed_gap_sec(df[j], b) = allowed_gap_sec(b, df[j])
                 /\ allowed_gap_sec(df[j], b) >= 3000
           /\ (k > 2 /\ same_setup(df[k - 2], b)) =>
                 (SameCluster(df[k - 2], b)
                    <=> b.time - df[k - 2].time <= ExpectedGap(df[k - 2], b))

\* two records 6.2 s apart, one with a shutter time of 2 s and one with none,
\* in one cluster
C16_Witness ==
    /\ pc = "cluster"
    /\ k = 3
    /\ df[2].time - df[1].time = 6200
    /\ ExpectedGap(df[1], df[2]) = 6200
    /\ ~IsNum(df[1].shutter)
    /\ cur = df

\* both records report field f and the two values differ by more than tol
ReportedApart(a, b, f, tol) ==
    IsNum(a[f]) /\ IsNum(b[f]) /\ Abs(a[f].val - b[f].val) > tol

\* C17: two consecutive records within the allowed gap are put in different
\* clusters (judged not same-setup) if and only if both report an f-number
\* and the two differ by more than 0.2, or both report a focal length and the
\* two differ by more than 2.0; the judgement is the same in either order.
C17_SameSetup ==
    Clustered =>
        \A i \in 1..(Len(Placed) - 1) :
            LET a == Placed[i]
                b == Placed[i + 1]
            IN /\ same_setup(a, b) = same_setup(b, a)
               /\ ~GapExceeded(a, b) =>
                     (~SameCluster(a, b)
                        <=> (ReportedApart(a, b, "fnum", 2)
                                \/ ReportedApart(a, b, "focal", 2)))

(***************************************************************************)
(* The reversal rule of the splitter.                                      *)
(***************************************************************************)
\* one record is scanned and the scan goes on
Scanned == pc = "scan" /\ pc' = "scan" /\ sp'.si = sp.si + 1
Item == sp.ordered[sp.si]
Pred == sp.current[Len(sp.current)]
\* the scanned record starts a new sub-group, the open one is closed
StartsNew == sp'.current = <<Item>> /\ sp'.groups = Append(sp.groups, sp.current)
Appended == sp'.current = Append(sp.current, Item) /\ sp'.groups = sp.groups

\* the delta opposes the direction by more than 0.6 stops
Opposes(direction, delta) ==
    (direction = 1 /\ delta < -60) \/ (direction = -1 /\ delta > 60)

\* C18: in the scan of a cluster longer than 7, a record that is not first
\* in its sub-group, whose sub-group holds fewer than 7 records and whose ev
\* and predecessor's ev are both reported starts a new sub-group exactly when
\* the direction is set, the delta from the predecessor opposes it by more
\* than 0.6 stops, and the record's exposure is within 0.4 stops of start_exp
\* or max_exp - min_exp before the record is at least 0.6 stops; otherwise it
\* is appended.
C18_SplitRule ==
    [][(Scanned /\ sp.current # <<>> /\ Len(sp.current) < 7
            /\ IsNum(Item.ev) /\ IsNum(Pred.ev)) =>
        LET delta == Item.ev.val - Pred.ev.val
            rule == /\ sp.direction # 0
                    /\ Opposes(sp.direction, delta)
                    /\ \/ Abs(Item.ev.val - sp.start_exp.val) <= 40
                       \/ sp.max_exp.val - sp.min_exp.val >= 60
        IN IF rule THEN StartsNew ELSE Appended]_vars

\* a record one stop under its predecessor, not within 0.4 stops of the
\* start, has just closed an ascending sub-group of fewer than 7 records
C18_Witness ==
    /\ pc = "scan"
    /\ sp.branch = "reversal"
    /\ LET closed == sp.groups[Len(sp.groups)]
           last == closed[Len(closed)]
       IN /\ Len(closed) < 7
          /\ sp.current[1].ev.val - last.ev.val = -100
          /\ Abs(sp.current[1].ev.val - closed[1].ev.val) > 40

\* the deltas of a sub-group: between consecutive records that both report ev
Swings(g) ==
    {i \in 2..Len(g) : IsNum(g[i].ev) /\ IsNum(g[i - 1].ev)
                        /\ Abs(g[i].ev.val - g[i - 1].ev.val) >= 40}

\* the sign of the first delta of at least 0.4 stops, 0 if there is none
FirstSwing(g) ==
    IF Swings(g) = {} THEN 0
    ELSE LET i == CHOOSE x \in Swings(g) : \A y \in Swings(g) : x <= y
         IN IF g[i].ev.val > g[i - 1].ev.val THEN 1 ELSE -1

\* C19: all through the scan the direction is the sign of the first
\* consecutive delta of the open sub-group that reaches 0.4 stops (none while
\* there is no such delta), so later deltas never change it; and a sub-group
\* is closed for a reversal only by a delta that opposes its direction by more
\* than 0.6 stops.
C19_StickyDirection ==
    pc = "scan" =>
        /\ sp.direction = FirstSwing(sp.current)
        /\ sp.branch = "reversal" =>
              LET closed == sp.groups[Len(sp.groups)]
                  delta == sp.current[1].ev.val - closed[Len(closed)].ev.val
              IN Opposes(FirstSwing(closed), delta)

\* an ascending sub-group has taken a record half a stop under its
\* predecessor and a later one a full stop above
C19_Witness ==
    /\ pc = "scan"
    /\ sp.branch = "append"
    /\ sp.direction = 1
    /\ \E i \in 3..(Len(sp.current) - 1) :
          /\ sp.current[i].ev.val - sp.current[i - 1].ev.val = -50
          /\ sp.current[i + 1].ev.val - sp.current[i].ev.val = 100

(***************************************************************************)
(* Records without an exposure value in the scan.                          *)
(***************************************************************************)
\* the record the scan has just taken
Taken == sp.ordered[sp.si - 1]
\* neither an ev nor a positive shutter time is reported
NoExposure(r) == ~IsNum(r.ev) /\ ~(IsNum(r.shutter) /\ r.shutter.val > 0)
Accumulated == Len(sp.current) >= 2 /\ sp.current[Len(sp.current)] = Taken

\* C20 as stated: a record without an exposure value, past the first of the
\* cluster, is always accumulated into the open sub-group and never starts a
\* new one.
C20_AlwaysAccumulated ==
    (pc = "scan" /\ sp.si > 2 /\ NoExposure(Taken)) => Accumulated

\* C20: a record without an exposure value never starts a new sub-group by
\* the reversal rule: past the first of the cluster it is accumulated into the
\* open sub-group unless that sub-group already holds 7 records or the gap or
\* setup rule fails against its predecessor.
C20_NoReversalSplit ==
    (pc = "scan" /\ sp.si > 2 /\ NoExposure(Taken)) =>
        \/ Accumulated
        \/ /\ sp.current = <<Taken>>
           /\ LET closed == sp.groups[Len(sp.groups)]
                  last == closed[Len(closed)]
              IN \/ Len(closed) = 7
                 \/ GapExceeded(last, Taken)
                 \/ ~same_setup(last, Taken)

\* a record without an exposure value has joined an ascending sub-group
\* whose last exposure was two stops above its start
C20_Witness ==
    /\ pc = "scan"
    /\ sp.si > 2
    /\ NoExposure(Taken)
    /\ Accumulated
    /\ sp.direction = 1
    /\ Len(sp.current) = 4
    /\ sp.current[3].ev = Num(200)
    /\ sp.current[1].ev = Num(0)

(***************************************************************************)
(* The bookkeeping of the scan.                                            *)
(***************************************************************************)
\* the defined exposure values of the records of g
DefinedExps(g) ==
    {exposure_value(g[i]).val : i \in {j \in DOMAIN g : IsNum(exposure_value(g[j]))}}

\* C21: at every step of the scan start_exp is the exposure value of the
\* first record of the open sub-group, and min_exp and max_exp are the least
\* and greatest defined exposure value of the records of the open sub-group
\* alone, both undefined when it has none; before the first record all three
\* are undefined.
C21_Bookkeeping ==
    pc = "scan" =>
        IF sp.current = <<>>
        THEN sp.start_exp = None /\ sp.min_exp = None /\ sp.max_exp = None
        ELSE /\ sp.start_exp = exposure_value(sp.current[1])
             /\ \A exps \in {DefinedExps(sp.current)} :
                   IF exps = {}
                   THEN sp.min_exp = None /\ sp.max_exp = None
                   ELSE /\ IsNum(sp.min_exp) /\ IsNum(sp.max_exp)
                        /\ sp.min_exp.val \in exps /\ sp.max_exp.val \in exps
                        /\ \A e \in exps : sp.min_exp.val <= e /\ e <= sp.max_exp.val

\* the open sub-group has two records and a least exposure above one of the
\* sub-group closed before it
C21_Witness ==
    /\ pc = "scan"
    /\ Len(sp.groups) >= 1
    /\ Len(sp.current) >= 2
    /\ IsNum(sp.min_exp)
    /\ \E e \in DefinedExps(sp.groups[Len(sp.groups)]) : e < sp.min_exp.val

(***************************************************************************)
(* The time_gap_ok rule.                                                   *)
(***************************************************************************)
WithinGap(a, b) == b.time - a.time <= ExpectedGap(a, b)

\* every two records of g that follow one another in time are within the gap
\* (records of equal time may follow one another in either order)
AdjacentWithinGap(g) ==
    \A i, j \in DOMAIN g :
        (i # j /\ g[i].time <= g[j].time
            /\ ~\E m \in DOMAIN g : g[i].time < g[m].time /\ g[m].time < g[j].time)
        => WithinGap(g[i], g[j])

\* some order of g ascending in time has every consecutive pair within the gap
SomeOrderWithinGap(g) ==
    \E o \in SortValuesTime(g) : \A idx \in 2..Len(o) : WithinGap(o[idx - 1], o[idx])

HasReason(i, tag) == tag \in Range(confidences[i].reason)

\* C22 as stated: for any group scored without an error, time_gap_ok is among
\* the reasons if and only if every consecutive pair of its records in time
\* order is within the dynamic gap.
C22_AnyGroup ==
    \A i \in DOMAIN confidences :
        raised[i] = "none" =>
            (HasReason(i, "time_gap_ok") <=> AdjacentWithinGap(groups[i]))

\* C22: for a group of two or more records scored without an error,
\* time_gap_ok is among the reasons if and only if every consecutive pair of
\* its records in time order is within the dynamic gap (with records of equal
\* time: if all orders pass it is, and if it is some order passes); a group
\* of one record never has it.
C22_TimeGapOk ==
    \A i \in DOMAIN confidences :
        raised[i] = "none" =>
            IF Len(groups[i]) >= 2
            THEN /\ AdjacentWithinGap(groups[i]) => HasReason(i, "time_gap_ok")
                 /\ HasReason(i, "time_gap_ok") => SomeOrderWithinGap(groups[i])
            ELSE ~HasReason(i, "time_gap_ok")

\* a group whose last record comes 5 s late is scored without the rule, the
\* group after it with it
C22_Witness ==
    /\ Len(confidences) = 2
    /\ raised = <<"none", "none">>
    /\ Len(groups[1]) >= 3
    /\ ~AdjacentWithinGap(groups[1])
    /\ ~HasReason(1, "time_gap_ok")
    /\ HasReason(2, "time_gap_ok")

(***************************************************************************)
(* The exposure value of a record.                                         *)
(***************************************************************************)
\* the ev when one is reported, otherwise log2 of a positive shutter time,
\* otherwise undefined
StatedExposure(r) ==
    IF IsNum(r.ev) THEN r.ev
    ELSE IF IsNum(r.shutter) /\ r.shutter.val > 0
         THEN Num(Log2(r.shutter.val)) ELSE None

StatedExps(g) ==
    {StatedExposure(g[i]).val : i \in {j \in DOMAIN g : IsNum(StatedExposure(g[j]))}}

\* C23: the exposure value the scan uses for a record is its ev when one is
\* reported, otherwise log2(shutter) when the shutter time is reported and
\* positive, otherwise undefined: start_exp is that value of the first record
\* of the open sub-group, and min_exp and max_exp span those values of its
\* records.
C23_ExposureValue ==
    (pc = "scan" /\ sp.current # <<>>) =>
        /\ sp.start_exp = StatedExposure(sp.current[1])
        /\ \A e \in StatedExps(sp.current) :
              IsNum(sp.min_exp) /\ IsNum(sp.max_exp)
              /\ sp.min_exp.val <= e /\ e <= sp.max_exp.val

(***************************************************************************)
(* Primary and fallback fields.                                            *)
(***************************************************************************)
Parseable(v, unit) == v # None /\ parse_num(v, unit) # None

\* the column is the primary field's value when that is present and
\* parseable, and the fallback's value when the primary is absent
PrimaryWins(col, primary, fallback, unit) ==
    /\ Parseable(primary, unit) => col = parse_num(primary, unit)
    /\ primary = None => col = parse_num(fallback, unit)

Built == pc = "frame" /\ Len(rows) = 1

\* C24: the record built from an entry takes ev from the exposure-bias field
\* whenever that is present and parseable, the value 0 included, and from
\* exposure-compensation when it is absent; likewise shutter from exposure
\* time over shutter speed and fnum from f-number over aperture.
C24_PrimaryFirst ==
    Built =>
        /\ PrimaryWins(rows[1].ev, meta[1].ExposureBiasValue,
                       meta[1].ExposureCompensation, EvUnit)
        /\ PrimaryWins(rows[1].shutter, meta[1].ExposureTime,
                       meta[1].ShutterSpeed, ShutterUnit)
        /\ PrimaryWins(rows[1].fnum, meta[1].FNumber, meta[1].Aperture,
                       FnumUnit)

(***************************************************************************)
(* Final groups against the coarse clusters.                               *)
(***************************************************************************)
\* g is a run of consecutive records of cluster c
SpanOf(g, c) ==
    \E s \in 1..Len(time_groups[c]) :
        /\ s + Len(g) - 1 <= Len(time_groups[c])
        /\ SubSeq(time_groups[c], s, s + Len(g) - 1) = g

Owners(g) == {c \in DOMAIN time_groups : SpanOf(g, c)}

Owner(g) == CHOOSE c \in Owners(g) : TRUE

\* C25: when the pass has run, every final group is a run of consecutive
\* records of exactly one coarse cluster, the groups come in the order of
\* their clusters, and the groups of a cluster are together what the splitter
\* returned for it.
C25_WithinCluster ==
    pc = "done" =>
        /\ \A g \in DOMAIN groups :
             groups[g] # <<>> /\ Cardinality(Owners(groups[g])) = 1
        /\ \A g \in 2..Len(groups) : Owner(groups[g - 1]) <= Owner(groups[g])
        /\ groups = Flatten(parts)
        /\ \A c \in DOMAIN time_groups :
             Flatten(SelectSeq(groups, LAMBDA g : Owner(g) = c)) = time_groups[c]

C25_Witness ==
    /\ pc = "done"
    /\ Len(time_groups) = 2
    /\ Len(parts[1]) >= 3
    /\ Len(groups) = Len(parts[1]) + 1

(***************************************************************************)
(* The splitter inside the pass.                                           *)
(***************************************************************************)
\* C27: when split_exposure_cluster runs on the clusters of the clustering
\* loop, its own gap / same-setup test never starts a sub-group.
C27_NoGapSplit == sp.branch # "gap"

C27_Witness ==
    /\ pc = "scan"
    /\ sp.branch = "append"
    /\ Len(sp.groups) >= 1
    /\ Len(sp.current) >= 2
    /\ sp.current[Len(sp.current)].time
         - sp.current[Len(sp.current) - 1].time > TIME_GAP_SEC

(***************************************************************************)
(* Sizes of the final groups.                                              *)
(***************************************************************************)
\* C26: every final group of the pass holds between 1 and 7 records, so a
\* scored group carries shot_count_out_of_range exactly when it is a single
\* record.
C26_GroupSizes ==
    /\ \A g \in DOMAIN groups : 1 <= Len(groups[g]) /\ Len(groups[g]) <= 7
    /\ \A i \in DOMAIN confidences :
         raised[i] = "none" =>
            (HasReason(i, "shot_count_out_of_range") <=> Len(groups[i]) = 1)

C26_Witness ==
    /\ Len(time_groups) = 1
    /\ Len(time_groups[1]) = 8
    /\ Len(confidences) = 2
    /\ raised = <<"none", "none">>
    /\ Len(groups[1]) = 7
    /\ ~HasReason(1, "shot_count_out_of_range")
    /\ Len(groups[2]) = 1
    /\ HasReason(2, "shot_count_out_of_range")

(***************************************************************************)
(* Automatic approval.                                                     *)
(***************************************************************************)
FullMarks(i) ==
    /\ HasReason(i, "ev_range_ok")
    /\ HasReason(i, "shot_count_3") \/ HasReason(i, "shot_count_5")
    /\ HasReason(i, "time_gap_ok")
    /\ HasReason(i, "same_aperture") \/ HasReason(i, "same_focal_length")

\* C28: a group is auto_approved exactly when it earned ev_range_ok, the
\* 3-or-5 shot bonus, time_gap_ok and at least one of same_aperture and
\* same_focal_length; an approved group has an ev range of at least 0.6 stops
\* and 3 or 5 records.
C28_AutoApproved ==
    \A i \in DOMAIN confidences :
        /\ confidences[i].auto_approved <=> FullMarks(i)
        /\ confidences[i].auto_approved =>
              /\ ev_range(DataFrame(groups[i])) >= 60
              /\ Len(groups[i]) \in {3, 5}

C28_Witness ==
    /\ Len(confidences) = 2
    /\ confidences[1].auto_approved
    /\ confidences[1].confidence_score = 90
    /\ ~confidences[2].auto_approved
    /\ confidences[2].confidence_score = 80

(***************************************************************************)
(* The HDR candidate flag.                                                 *)
(***************************************************************************)
\* C29: in every confidence record is_hdr_candidate is true exactly when the
\* reasons contain ev_range_ok; a group whose scoring failed has
\* is_hdr_candidate false.
C29_HdrCandidate ==
    \A i \in DOMAIN confidences :
        /\ confidences[i].is_hdr_candidate <=> HasReason(i, "ev_range_ok")
        /\ raised[i] # "none" => ~confidences[i].is_hdr_candidate

(***************************************************************************)
(* The gap rule on the groups of the pass.                                 *)
(***************************************************************************)
\* C30: every final group of the pass with two or more records, when scored,
\* gets time_gap_ok.
C30_AlwaysGapOk ==
    \A i \in DOMAIN confidences :
        (raised[i] = "none" /\ Len(groups[i]) >= 2) => HasReason(i, "time_gap_ok")

(***************************************************************************)
(* The size guard of the reversal split.                                   *)
(***************************************************************************)
\* the scan is about to evaluate sign_flip for the incoming record: the
\* record is not first in its sub-group, passes the gap / same-setup test and
\* the cap, and its exposure value and its predecessor's are both defined
AtSignFlip ==
    /\ pc = "scan"
    /\ sp.si <= Len(sp.ordered)
    /\ sp.current # <<>>
    /\ Item.time - Pred.time <= allowed_gap_sec(Pred, Item)
    /\ same_setup(Pred, Item)
    /\ ~AtCap(sp.current)
    /\ IsNum(exposure_value(Item))
    /\ IsNum(exposure_value(Pred))

\* sign_flip as the scan computes it for the incoming record
IncomingSignFlip ==
    \A delta \in {exposure_value(Item).val - exposure_value(Pred).val} :
        SignFlip(SetDirection(sp.direction, delta), delta)

\* C31: whenever sign_flip holds for the incoming record the open sub-group
\* already holds at least 2 records, so the guard len(current) >= 2 never
\* decides, and the sub-group a reversal split closes holds at least 2
\* records.
C31_GuardRedundant ==
    /\ (AtSignFlip /\ IncomingSignFlip) => Len(sp.current) >= 2
    /\ (pc = "scan" /\ sp.branch = "reversal") =>
          Len(sp.groups[Len(sp.groups)]) >= 2

\* a reversal has just closed a sub-group of exactly 2 records, and the
\* incoming record differs from the single record of the open sub-group by
\* more than 0.6 stops
C31_Witness ==
    /\ AtSignFlip
    /\ sp.branch = "reversal"
    /\ Len(sp.groups[Len(sp.groups)]) = 2
    /\ Len(sp.current) = 1
    /\ Abs(exposure_value(Item).val - exposure_value(Pred).val) > 60

====
